---- MODULE Spec2Model ----
(***************************************************************************)
(* Model of the component-library backend: the relational schema of the    *)
(* initial migration (tables, primary keys, unique indexes, cascading      *)
(* foreign keys), the seed script prisma/seed.ts, and the database-client  *)
(* singleton module src/lib/prisma.ts.                                     *)
(*                                                                         *)
(* Five specifications share the variables:                                *)
(*   SpecFavorite statements against Component and Favorite                *)
(*   SpecCascade  statements against Component and its dependent tables    *)
(*   SpecUser     statements against User                                  *)
(*   SpecSeed     seed processes running against a populated database      *)
(*   SpecClient   evaluations of the client module inside node processes   *)
(***************************************************************************)
EXTENDS Integers, Sequences, FiniteSets, TLC

\* ---- bounds -------------------------------------------------------------
NumCompIds == 2      \* distinct values of Component.id
NumUserIds == 2      \* distinct values of Favorite.userId / User.id
NumFavIds  == 2      \* distinct values of Favorite.id
NumVerIds  == 2      \* distinct values of ComponentVersion.id
NumEmails  == 3      \* distinct values of User.email
MaxCatalog == 2      \* longest componentRegistry array
MaxStarts  == 3      \* seed processes launched in one behaviour
NumProcs   == 2      \* node processes evaluating the client module
MaxEvals   == 4      \* evaluations of the client module per process

CompIds  == 1..NumCompIds
UserIds  == 1..NumUserIds
FavIds   == 1..NumFavIds
VerIds   == 1..NumVerIds
Emails   == 1..NumEmails
Runs     == {1, 2}   \* seed processes that can be alive at the same time
Procs    == 1..NumProcs

VARIABLES
    Component,          \* rows of table "Component"
    Favorite,           \* rows of table "Favorite"
    ComponentVersion,   \* rows of table "ComponentVersion"
    User,               \* rows of table "User"
    lastStmt,           \* the last statement executed and its outcome
    componentRegistry,  \* the static catalog imported by the seed script
    pc,                 \* seed process -> position in the script
    idx,                \* seed process -> index of the entry the loop is at
    err,                \* seed process -> the rejection main() ended with
    exitCode,           \* seed process -> exit status, -1 while alive
    disconnected,       \* seed process -> prisma.$disconnect() was called
    ordinal,            \* seed process -> launch number of the process
    starts,             \* seed processes launched so far
    overlap,            \* two seed processes were alive at the same time
    atSuccess,          \* seed process -> ids in Component when it logged success
    healthy,            \* no statement of a seed process failed in the database
    nodeEnv,            \* node process -> process.env.NODE_ENV
    globalPrisma,       \* node process -> globalThis.prisma (0 = undefined)
    constructed,        \* node process -> PrismaClient objects constructed
    exported            \* node process -> the export of each evaluation

dbVars     == <<Component, Favorite, ComponentVersion>>
seedVars   == <<componentRegistry, pc, idx, err, exitCode, disconnected,
                ordinal, starts, overlap, atSuccess, healthy>>
clientVars == <<nodeEnv, globalPrisma, constructed, exported>>
vars       == <<Component, Favorite, ComponentVersion, User, lastStmt,
                componentRegistry, pc, idx, err, exitCode, disconnected,
                ordinal, starts, overlap, atSuccess, healthy,
                nodeEnv, globalPrisma, constructed, exported>>

\* ---- rows ---------------------------------------------------------------
\* A Component row: its primary key and, as provenance, the launch number of
\* the seed process that created it (0: created by something else).
ComponentRow == [id : CompIds, run : 0..MaxStarts]
FavoriteRow  == [id : FavIds, userId : UserIds, componentId : CompIds]
VersionRow   == [id : VerIds, componentId : CompIds]
UserRow      == [id : UserIds, email : Emails]

Ids(rows) == {row.id : row \in rows}

\* The record of a statement: its arguments and its outcome.
Stmt(op, a, b, c, outcome) ==
    [op |-> op, a |-> a, b |-> b, c |-> c, outcome |-> outcome]
NoStmt == Stmt("none", 0, 0, 0, "ok")

\* ---- constraints of the schema -------------------------------------------
\* CONSTRAINT "Component_pkey" PRIMARY KEY ("id")
Component_pkey(rows, id) == \A row \in rows : row.id # id
\* CONSTRAINT "Favorite_pkey" PRIMARY KEY ("id")
Favorite_pkey(rows, id) == \A row \in rows : row.id # id
\* CONSTRAINT "ComponentVersion_pkey" PRIMARY KEY ("id")
ComponentVersion_pkey(rows, id) == \A row \in rows : row.id # id
\* CONSTRAINT "User_pkey" PRIMARY KEY ("id")
User_pkey(rows, id) == \A row \in rows : row.id # id
\* UNIQUE INDEX "Favorite_userId_componentId_key"
Favorite_userId_componentId_keyMutant(rows, userId, componentId) == TRUE
Favorite_userId_componentId_key(rows, userId, componentId) ==
    \A row \in rows : ~(row.userId = userId /\ row.componentId = componentId)
\* UNIQUE INDEX "User_email_key"
User_email_keyMutant(rows, email) == TRUE
User_email_key(rows, email) == \A row \in rows : row.email # email
\* FOREIGN KEY ("componentId") REFERENCES "Component"("id"), on insert/update
\* of the referencing row
Favorite_componentId_fkey(componentId) == componentId \in Ids(Component)
ComponentVersion_componentId_fkey(componentId) == componentId \in Ids(Component)

\* ON DELETE CASCADE: the referencing rows that survive the deletion of the
\* Component rows whose ids are in gone
CascadeDeleteMutant(rows, gone) == rows
CascadeDelete(rows, gone) == {row \in rows : row.componentId \notin gone}
\* ON UPDATE CASCADE: the referencing rows after Component.id old became new
CascadeUpdate(rows, old, new) ==
    {IF row.componentId = old THEN [row EXCEPT !.componentId = new] ELSE row
       : row \in rows}

\* ---- statements against Component, Favorite, ComponentVersion -------------
\* INSERT INTO "Component": rejected by the primary key when the id exists.
InsertComponent(id) ==
    /\ IF Component_pkey(Component, id)
         THEN /\ Component' = Component \cup {[id |-> id, run |-> 0]}
              /\ lastStmt' = Stmt("InsertComponent", id, 0, 0, "ok")
         ELSE /\ Component' = Component
              /\ lastStmt' = Stmt("InsertComponent", id, 0, 0, "rejected")
    /\ UNCHANGED <<Favorite, ComponentVersion, User, seedVars, clientVars>>

\* DELETE FROM "Component" WHERE id = ...: both foreign keys cascade.  The
\* statement record keeps how many Favorite and ComponentVersion rows went.
DeleteComponent(id) ==
    /\ Component' = {row \in Component : row.id # id}
    /\ Favorite' = CascadeDelete(Favorite, {id})
    /\ ComponentVersion' = CascadeDelete(ComponentVersion, {id})
    /\ lastStmt' = Stmt("DeleteComponent", id,
                         Cardinality(Favorite) - Cardinality(Favorite'),
                         Cardinality(ComponentVersion) - Cardinality(ComponentVersion'),
                         "ok")
    /\ UNCHANGED <<User, seedVars, clientVars>>

\* UPDATE "Component" SET id = new WHERE id = old: both foreign keys cascade.
UpdateComponentId(old, new) ==
    /\ old # new
    /\ old \in Ids(Component)
    /\ IF Component_pkey(Component, new)
         THEN /\ Component' = {IF row.id = old THEN [row EXCEPT !.id = new]
                                 ELSE row : row \in Component}
              /\ Favorite' = CascadeUpdate(Favorite, old, new)
              /\ ComponentVersion' = CascadeUpdate(ComponentVersion, old, new)
              /\ lastStmt' = Stmt("UpdateComponentId", old, new, 0, "ok")
         ELSE /\ UNCHANGED <<Component, Favorite, ComponentVersion>>
              /\ lastStmt' = Stmt("UpdateComponentId", old, new, 0, "rejected")
    /\ UNCHANGED <<User, seedVars, clientVars>>

\* INSERT INTO "Favorite": rejected by the primary key, by the unique index
\* on (userId, componentId), or by the foreign key to Component.
InsertFavorite(id, userId, componentId) ==
    /\ IF /\ Favorite_pkey(Favorite, id)
          /\ Favorite_userId_componentId_key(Favorite, userId, componentId)
          /\ Favorite_componentId_fkey(componentId)
         THEN /\ Favorite' = Favorite \cup
                     {[id |-> id, userId |-> userId, componentId |-> componentId]}
              /\ lastStmt' = Stmt("InsertFavorite", id, userId, componentId, "ok")
         ELSE /\ Favorite' = Favorite
              /\ lastStmt' = Stmt("InsertFavorite", id, userId, componentId, "rejected")
    /\ UNCHANGED <<Component, ComponentVersion, User, seedVars, clientVars>>

\* UPDATE "Favorite" SET userId = ..., componentId = ... WHERE id = ...
UpdateFavorite(id, userId, componentId) ==
    /\ id \in Ids(Favorite)
    /\ LET others == {row \in Favorite : row.id # id} IN
       IF /\ Favorite_userId_componentId_key(others, userId, componentId)
          /\ Favorite_componentId_fkey(componentId)
         THEN /\ Favorite' = others \cup
                     {[id |-> id, userId |-> userId, componentId |-> componentId]}
              /\ lastStmt' = Stmt("UpdateFavorite", id, userId, componentId, "ok")
         ELSE /\ Favorite' = Favorite
              /\ lastStmt' = Stmt("UpdateFavorite", id, userId, componentId, "rejected")
    /\ UNCHANGED <<Component, ComponentVersion, User, seedVars, clientVars>>

\* DELETE FROM "Favorite" WHERE id = ...
DeleteFavorite(id) ==
    /\ Favorite' = {row \in Favorite : row.id # id}
    /\ lastStmt' = Stmt("DeleteFavorite", id, 0, 0, "ok")
    /\ UNCHANGED <<Component, ComponentVersion, User, seedVars, clientVars>>

\* INSERT INTO "ComponentVersion": rejected by the primary key or by the
\* foreign key to Component.
InsertComponentVersion(id, componentId) ==
    /\ IF /\ ComponentVersion_pkey(ComponentVersion, id)
          /\ ComponentVersion_componentId_fkey(componentId)
         THEN /\ ComponentVersion' = ComponentVersion \cup
                     {[id |-> id, componentId |-> componentId]}
              /\ lastStmt' = Stmt("InsertComponentVersion", id, componentId, 0, "ok")
         ELSE /\ ComponentVersion' = ComponentVersion
              /\ lastStmt' = Stmt("InsertComponentVersion", id, componentId, 0, "rejected")
    /\ UNCHANGED <<Component, Favorite, User, seedVars, clientVars>>

\* DELETE FROM "ComponentVersion" WHERE id = ...
DeleteComponentVersion(id) ==
    /\ ComponentVersion' = {row \in ComponentVersion : row.id # id}
    /\ lastStmt' = Stmt("DeleteComponentVersion", id, 0, 0, "ok")
    /\ UNCHANGED <<Component, Favorite, User, seedVars, clientVars>>

\* ---- statements against User ----------------------------------------------
\* INSERT INTO "User": rejected by the primary key or by the unique index on
\* email.
InsertUser(id, email) ==
    /\ IF User_pkey(User, id) /\ User_email_key(User, email)
         THEN /\ User' = User \cup {[id |-> id, email |-> email]}
              /\ lastStmt' = Stmt("InsertUser", id, email, 0, "ok")
         ELSE /\ User' = User
              /\ lastStmt' = Stmt("InsertUser", id, email, 0, "rejected")
    /\ UNCHANGED <<dbVars, seedVars, clientVars>>

\* UPDATE "User" SET email = ... WHERE id = ...: the unique index is checked
\* against the other rows.
UpdateUserEmail(id, email) ==
    /\ id \in Ids(User)
    /\ LET others == {row \in User : row.id # id} IN
       IF User_email_key(others, email)
         THEN /\ User' = others \cup {[id |-> id, email |-> email]}
              /\ lastStmt' = Stmt("UpdateUserEmail", id, email, 0, "ok")
         ELSE /\ User' = User
              /\ lastStmt' = Stmt("UpdateUserEmail", id, email, 0, "rejected")
    /\ UNCHANGED <<dbVars, seedVars, clientVars>>

\* DELETE FROM "User" WHERE id = ...
DeleteUser(id) ==
    /\ User' = {row \in User : row.id # id}
    /\ lastStmt' = Stmt("DeleteUser", id, 0, 0, "ok")
    /\ UNCHANGED <<dbVars, seedVars, clientVars>>

\* ---- the seed script (prisma/seed.ts) -------------------------------------
\* pc: "idle" (not launched), "deleteMany" (before line 12), "create" (in the
\* loop of lines 16-33), "catch" (main rejected, handler of lines 39-42 due),
\* "finally" (main resolved, handler of lines 43-45 due), "exited".
Alive(r) == pc[r] \notin {"idle", "exited"}

CatalogIds == {componentRegistry[i].id : i \in 1..Len(componentRegistry)}
Prefix(k) == {componentRegistry[i].id : i \in 1..k}

\* `npm run prisma:seed`: a new process runs the script; line 6 constructs its
\* client and line 38 calls main().
Start(r) ==
    /\ ~Alive(r)
    /\ starts < MaxStarts
    /\ starts' = starts + 1
    /\ ordinal' = [ordinal EXCEPT ![r] = starts + 1]
    /\ pc' = [pc EXCEPT ![r] = "deleteMany"]
    /\ idx' = [idx EXCEPT ![r] = 1]
    /\ err' = [err EXCEPT ![r] = "none"]
    /\ exitCode' = [exitCode EXCEPT ![r] = -1]
    /\ disconnected' = [disconnected EXCEPT ![r] = FALSE]
    /\ atSuccess' = [atSuccess EXCEPT ![r] = {}]
    /\ overlap' = (overlap \/ \E o \in Runs \ {r} : Alive(o))
    /\ UNCHANGED <<dbVars, User, lastStmt, componentRegistry, healthy, clientVars>>

\* line 12: await prisma.component.deleteMany({}) deletes every Component row
\* (the foreign keys cascade), or rejects and main() rejects with it.  The
\* statement record keeps how many Favorite and ComponentVersion rows went.
DeleteManyMutant(r) ==
    /\ pc[r] = "deleteMany"
    /\ pc' = [pc EXCEPT ![r] = "create"]
    /\ lastStmt' = Stmt("deleteMany", 0, 0, 0, "ok")
    /\ UNCHANGED <<Component, Favorite, ComponentVersion, err, healthy>>
    /\ UNCHANGED <<User, componentRegistry, idx, exitCode,
                   disconnected, ordinal, starts, overlap, atSuccess, clientVars>>
DeleteMany(r) ==
    /\ pc[r] = "deleteMany"
    /\ \/ /\ Component' = {}
          /\ Favorite' = CascadeDelete(Favorite, Ids(Component))
          /\ ComponentVersion' = CascadeDelete(ComponentVersion, Ids(Component))
          /\ pc' = [pc EXCEPT ![r] = "create"]
          /\ lastStmt' = Stmt("deleteMany", 0,
                               Cardinality(Favorite) - Cardinality(Favorite'),
                               Cardinality(ComponentVersion)
                                  - Cardinality(ComponentVersion'),
                               "ok")
          /\ UNCHANGED <<err, healthy>>
       \/ /\ pc' = [pc EXCEPT ![r] = "catch"]
          /\ err' = [err EXCEPT ![r] = "deleteMany"]
          /\ healthy' = FALSE
          /\ UNCHANGED <<Component, Favorite, ComponentVersion, lastStmt>>
    /\ UNCHANGED <<User, componentRegistry, idx, exitCode,
                   disconnected, ordinal, starts, overlap, atSuccess, clientVars>>

CreateSkipMutant(r) ==
    /\ pc[r] = "create"
    /\ idx[r] <= Len(componentRegistry)
    /\ LET comp == componentRegistry[idx[r]] IN
       \/ /\ Component_pkey(Component, comp.id)
          /\ Component' = Component \cup {[id |-> comp.id, run |-> ordinal[r]]}
          /\ idx' = [idx EXCEPT ![r] = idx[r] + 1]
          /\ UNCHANGED <<pc, err, healthy>>
       \/ /\ ~Component_pkey(Component, comp.id)
          /\ idx' = [idx EXCEPT ![r] = idx[r] + 1]
          /\ UNCHANGED <<Component, pc, err, healthy>>
       \/ /\ pc' = [pc EXCEPT ![r] = "catch"]
          /\ err' = [err EXCEPT ![r] = "create"]
          /\ healthy' = FALSE
          /\ UNCHANGED <<Component, idx>>
    /\ UNCHANGED <<Favorite, ComponentVersion, User, lastStmt, componentRegistry,
                   exitCode, disconnected, ordinal, starts, overlap, atSuccess,
                   clientVars>>
CreateUndoMutant(r) ==
    /\ pc[r] = "create"
    /\ idx[r] <= Len(componentRegistry)
    /\ LET comp == componentRegistry[idx[r]]
           undone == {row \in Component : row.run # ordinal[r]} IN
       \/ /\ Component_pkey(Component, comp.id)
          /\ Component' = Component \cup {[id |-> comp.id, run |-> ordinal[r]]}
          /\ idx' = [idx EXCEPT ![r] = idx[r] + 1]
          /\ UNCHANGED <<pc, err, healthy>>
       \/ /\ ~Component_pkey(Component, comp.id)
          /\ pc' = [pc EXCEPT ![r] = "catch"]
          /\ err' = [err EXCEPT ![r] = "duplicate"]
          /\ Component' = undone
          /\ UNCHANGED <<idx, healthy>>
       \/ /\ pc' = [pc EXCEPT ![r] = "catch"]
          /\ err' = [err EXCEPT ![r] = "create"]
          /\ healthy' = FALSE
          /\ Component' = undone
          /\ UNCHANGED idx
    /\ UNCHANGED <<Favorite, ComponentVersion, User, lastStmt, componentRegistry,
                   exitCode, disconnected, ordinal, starts, overlap, atSuccess,
                   clientVars>>
\* lines 16-33, one iteration: await prisma.component.create({data: comp})
\* inserts the row, or is rejected by Component_pkey, or fails in the
\* database; a rejection leaves the loop and main() rejects with it.
Create(r) ==
    /\ pc[r] = "create"
    /\ idx[r] <= Len(componentRegistry)
    /\ LET comp == componentRegistry[idx[r]] IN
       \/ /\ Component_pkey(Component, comp.id)
          /\ Component' = Component \cup {[id |-> comp.id, run |-> ordinal[r]]}
          /\ idx' = [idx EXCEPT ![r] = idx[r] + 1]
          /\ UNCHANGED <<pc, err, healthy>>
       \/ /\ ~Component_pkey(Component, comp.id)
          /\ pc' = [pc EXCEPT ![r] = "catch"]
          /\ err' = [err EXCEPT ![r] = "duplicate"]
          /\ UNCHANGED <<Component, idx, healthy>>
       \/ /\ pc' = [pc EXCEPT ![r] = "catch"]
          /\ err' = [err EXCEPT ![r] = "create"]
          /\ healthy' = FALSE
          /\ UNCHANGED <<Component, idx>>
    /\ UNCHANGED <<Favorite, ComponentVersion, User, lastStmt, componentRegistry,
                   exitCode, disconnected, ordinal, starts, overlap, atSuccess,
                   clientVars>>

\* line 35: the loop is over, main() logs success and resolves.
Succeed(r) ==
    /\ pc[r] = "create"
    /\ idx[r] > Len(componentRegistry)
    /\ pc' = [pc EXCEPT ![r] = "finally"]
    /\ atSuccess' = [atSuccess EXCEPT ![r] = Ids(Component)]
    /\ UNCHANGED <<dbVars, User, lastStmt, componentRegistry, idx, err, exitCode,
                   disconnected, ordinal, starts, overlap, healthy, clientVars>>

\* lines 39-42: the catch handler logs the error and calls process.exit(1),
\* which ends the process on the spot: the finally handler of lines 43-45 is
\* never scheduled.
CatchMutant(r) ==
    /\ pc[r] = "catch"
    /\ pc' = [pc EXCEPT ![r] = "exited"]
    /\ exitCode' = [exitCode EXCEPT ![r] = 0]
    /\ UNCHANGED <<dbVars, User, lastStmt, componentRegistry, idx, err,
                   disconnected, ordinal, starts, overlap, atSuccess, healthy,
                   clientVars>>
Catch(r) ==
    /\ pc[r] = "catch"
    /\ pc' = [pc EXCEPT ![r] = "exited"]
    /\ exitCode' = [exitCode EXCEPT ![r] = 1]
    /\ UNCHANGED <<dbVars, User, lastStmt, componentRegistry, idx, err,
                   disconnected, ordinal, starts, overlap, atSuccess, healthy,
                   clientVars>>

\* lines 43-45: main() resolved, the finally handler awaits
\* prisma.$disconnect() and the process ends with status 0.
Finally(r) ==
    /\ pc[r] = "finally"
    /\ disconnected' = [disconnected EXCEPT ![r] = TRUE]
    /\ pc' = [pc EXCEPT ![r] = "exited"]
    /\ exitCode' = [exitCode EXCEPT ![r] = 0]
    /\ UNCHANGED <<dbVars, User, lastStmt, componentRegistry, idx, err,
                   ordinal, starts, overlap, atSuccess, healthy, clientVars>>

\* ---- the client module (src/lib/prisma.ts) --------------------------------
\* One evaluation of the module in process p (the first import, or a hot
\* reload): line 9 exports globalThis.prisma when it is set and a newly
\* constructed PrismaClient otherwise; lines 11-13 store the export on
\* globalThis unless NODE_ENV is 'production'.  A client is named by its
\* construction number within the process.
EvaluateMutant(p) ==
    /\ Len(exported[p]) < MaxEvals
    /\ LET prisma == constructed[p] + 1 IN
       /\ constructed' = [constructed EXCEPT ![p] = prisma]
       /\ exported' = [exported EXCEPT ![p] = Append(exported[p], prisma)]
       /\ globalPrisma' = IF nodeEnv[p] # "production"
                            THEN [globalPrisma EXCEPT ![p] = prisma]
                            ELSE globalPrisma
    /\ UNCHANGED <<dbVars, User, lastStmt, seedVars, nodeEnv>>
EvaluateStoreMutant(p) ==
    /\ Len(exported[p]) < MaxEvals
    /\ LET fresh  == globalPrisma[p] = 0
           prisma == IF fresh THEN constructed[p] + 1 ELSE globalPrisma[p] IN
       /\ constructed' = IF fresh THEN [constructed EXCEPT ![p] = prisma]
                                  ELSE constructed
       /\ exported' = [exported EXCEPT ![p] = Append(exported[p], prisma)]
       /\ globalPrisma' = [globalPrisma EXCEPT ![p] = prisma]
    /\ UNCHANGED <<dbVars, User, lastStmt, seedVars, nodeEnv>>
Evaluate(p) ==
    /\ Len(exported[p]) < MaxEvals
    /\ LET fresh  == globalPrisma[p] = 0
           prisma == IF fresh THEN constructed[p] + 1 ELSE globalPrisma[p] IN
       /\ constructed' = IF fresh THEN [constructed EXCEPT ![p] = prisma]
                                  ELSE constructed
       /\ exported' = [exported EXCEPT ![p] = Append(exported[p], prisma)]
       /\ globalPrisma' = IF nodeEnv[p] # "production"
                            THEN [globalPrisma EXCEPT ![p] = prisma]
                            ELSE globalPrisma
    /\ UNCHANGED <<dbVars, User, lastStmt, seedVars, nodeEnv>>

\* ---- initial states -------------------------------------------------------
EmptyTables ==
    /\ Component = {}
    /\ Favorite = {}
    /\ ComponentVersion = {}
    /\ User = {}
    /\ lastStmt = NoStmt

NoSeed ==
    /\ componentRegistry = <<>>
    /\ pc = [r \in Runs |-> "idle"]
    /\ idx = [r \in Runs |-> 1]
    /\ err = [r \in Runs |-> "none"]
    /\ exitCode = [r \in Runs |-> -1]
    /\ disconnected = [r \in Runs |-> FALSE]
    /\ ordinal = [r \in Runs |-> 0]
    /\ atSuccess = [r \in Runs |-> {}]
    /\ starts = 0
    /\ overlap = FALSE
    /\ healthy = TRUE

NoClient ==
    /\ nodeEnv = [p \in Procs |-> "development"]
    /\ globalPrisma = [p \in Procs |-> 0]
    /\ constructed = [p \in Procs |-> 0]
    /\ exported = [p \in Procs |-> <<>>]

\* The database right after the migration: every table is empty.
InitSchema == EmptyTables /\ NoSeed /\ NoClient
InitUser   == EmptyTables /\ NoSeed /\ NoClient

\* The seed script is launched against a database holding any set of
\* Component rows, any of which may have a Favorite and a ComponentVersion,
\* with any catalog of at most MaxCatalog entries.
SomeFavorites(components) ==
    {[id |-> i, userId |-> 1, componentId |-> i] : i \in Ids(components) \cap FavIds}
SomeVersions(components) ==
    {[id |-> i, componentId |-> i] : i \in Ids(components) \cap VerIds}
Catalogs ==
    UNION {[1..n -> [id : CompIds]] : n \in 0..MaxCatalog}
InitSeed ==
    /\ Component \in {{[id |-> i, run |-> 0] : i \in S} : S \in SUBSET CompIds}
    /\ Favorite \in SUBSET SomeFavorites(Component)
    /\ ComponentVersion \in SUBSET SomeVersions(Component)
    /\ User = {}
    /\ lastStmt = NoStmt
    /\ componentRegistry \in Catalogs
    /\ pc = [r \in Runs |-> "idle"]
    /\ idx = [r \in Runs |-> 1]
    /\ err = [r \in Runs |-> "none"]
    /\ exitCode = [r \in Runs |-> -1]
    /\ disconnected = [r \in Runs |-> FALSE]
    /\ ordinal = [r \in Runs |-> 0]
    /\ atSuccess = [r \in Runs |-> {}]
    /\ starts = 0
    /\ overlap = FALSE
    /\ healthy = TRUE
    /\ NoClient

\* Node processes start with globalThis.prisma unset; NODE_ENV is fixed for
\* the life of a process.
InitClient ==
    /\ EmptyTables
    /\ NoSeed
    /\ nodeEnv \in [Procs -> {"production", "development", "test"}]
    /\ globalPrisma = [p \in Procs |-> 0]
    /\ constructed = [p \in Procs |-> 0]
    /\ exported = [p \in Procs |-> <<>>]

\* ---- specifications -------------------------------------------------------
\* Favorites of any user on any component.
NextFavorite ==
    \/ \E id \in CompIds : InsertComponent(id)
    \/ \E id \in CompIds : DeleteComponent(id)
    \/ \E old, new \in CompIds : UpdateComponentId(old, new)
    \/ \E id \in FavIds, userId \in UserIds, componentId \in CompIds :
          InsertFavorite(id, userId, componentId)
    \/ \E id \in FavIds, userId \in UserIds, componentId \in CompIds :
          UpdateFavorite(id, userId, componentId)
    \/ \E id \in FavIds : DeleteFavorite(id)

\* Components with their favorites (of one user) and their versions.
NextCascade ==
    \/ \E id \in CompIds : InsertComponent(id)
    \/ \E id \in CompIds : DeleteComponent(id)
    \/ \E old, new \in CompIds : UpdateComponentId(old, new)
    \/ \E id \in FavIds, componentId \in CompIds :
          InsertFavorite(id, 1, componentId)
    \/ \E id \in FavIds, componentId \in CompIds :
          UpdateFavorite(id, 1, componentId)
    \/ \E id \in FavIds : DeleteFavorite(id)
    \/ \E id \in VerIds, componentId \in CompIds :
          InsertComponentVersion(id, componentId)
    \/ \E id \in VerIds : DeleteComponentVersion(id)

NextUser ==
    \/ \E id \in UserIds, email \in Emails : InsertUser(id, email)
    \/ \E id \in UserIds, email \in Emails : UpdateUserEmail(id, email)
    \/ \E id \in UserIds : DeleteUser(id)

NextSeed ==
    \/ \E r \in Runs : Start(r)
    \/ \E r \in Runs : DeleteMany(r)
    \/ \E r \in Runs : Create(r)
    \/ \E r \in Runs : Succeed(r)
    \/ \E r \in Runs : Catch(r)
    \/ \E r \in Runs : Finally(r)

NextClient == \E p \in Procs : Evaluate(p)

SpecFavorite == InitSchema /\ [][NextFavorite]_vars
SpecCascade  == InitSchema /\ [][NextCascade]_vars
SpecUser   == InitUser /\ [][NextUser]_vars
SpecSeed   == InitSeed /\ [][NextSeed]_vars
SpecClient == InitClient /\ [][NextClient]_vars

\* ---- properties of the seed script ----------------------------------------
Succeeded(r) == pc[r] \in {"finally", "exited"} /\ err[r] = "none"
Failed(r) == err[r] # "none"
DistinctIds ==
    \A i, j \in 1..Len(componentRegistry) :
        componentRegistry[i].id = componentRegistry[j].id => i = j

\* C1: when the only seed run of a behaviour has completed without an error,
\* the Component table holds exactly one row per catalog entry, carrying that
\* entry's id and created by that run, and no other row: as many rows as the
\* catalog has entries, whatever the table held before.
C1_SeedPopulatesCatalog ==
    \A r \in Runs :
        (starts = 1 /\ Succeeded(r)) =>
            /\ Cardinality(Component) = Len(componentRegistry)
            /\ Ids(Component) = CatalogIds
            /\ \A row \in Component : row.run = ordinal[r]
C1_Witness ==
    \E r \in Runs :
        /\ starts = 1
        /\ pc[r] = "exited"
        /\ exitCode[r] = 0
        /\ Len(componentRegistry) = MaxCatalog
        /\ Cardinality(Component) = MaxCatalog

\* C2: when seed runs never overlap, a run that completes without an error
\* after an earlier successful run leaves the table with the catalog's ids,
\* one row per id, every row created by the later run: the rows of the earlier
\* run were cleared before the inserts.
C2_SequentialReseed ==
    \A r, o \in Runs :
        ( /\ ~overlap
          /\ Succeeded(r)
          /\ ordinal[r] = starts
          /\ pc[o] = "exited" /\ exitCode[o] = 0 /\ ordinal[o] < ordinal[r] ) =>
            /\ Ids(Component) = CatalogIds
            /\ Cardinality(Component) = Len(componentRegistry)
            /\ \A x, y \in Component : x.id = y.id => x = y
            /\ \A row \in Component : row.run = ordinal[r]
C2_Witness ==
    \E r, o \in Runs :
        /\ ~overlap
        /\ pc[r] = "exited" /\ exitCode[r] = 0 /\ ordinal[r] = starts
        /\ pc[o] = "exited" /\ exitCode[o] = 0 /\ ordinal[o] < ordinal[r]
        /\ Component # {}

\* C3: every seed process that has ended called prisma.$disconnect() first,
\* whether main resolved or rejected.
C3_AlwaysDisconnects ==
    \A r \in Runs : pc[r] = "exited" => disconnected[r]

\* C4: a failure of deleteMany or of a create is caught and the process exits
\* with status 1; a run none of whose steps failed never reaches the catch
\* handler and exits with status 0.
C4_FailureExitsNonZero ==
    \A r \in Runs :
        /\ Failed(r) => pc[r] \in {"catch", "exited"}
        /\ (Failed(r) /\ pc[r] = "exited") => exitCode[r] = 1
        /\ pc[r] = "catch" => Failed(r)
        /\ (~Failed(r) /\ pc[r] = "exited") => exitCode[r] = 0
        /\ pc[r] # "exited" => exitCode[r] = -1
C4_Witness ==
    \E r, o \in Runs :
        /\ pc[r] = "exited" /\ err[r] = "create" /\ exitCode[r] = 1
        /\ pc[o] = "exited" /\ err[o] = "none" /\ exitCode[o] = 0

\* C8: against a healthy database and a catalog with pairwise-distinct ids,
\* the only way a run aborts is a duplicate-id rejection, and a run aborts or
\* reports success over an incomplete table only when seed runs overlapped;
\* both anomalies do occur in one interleaving of two runs (the witness).
C8_AnomaliesNeedOverlap ==
    \A r \in Runs :
        (healthy /\ DistinctIds) =>
            /\ Failed(r) => (err[r] = "duplicate" /\ overlap)
            /\ (Succeeded(r) /\ atSuccess[r] # CatalogIds) => overlap
C8_Witness ==
    \E r, o \in Runs :
        /\ healthy /\ DistinctIds
        /\ pc[o] = "exited" /\ err[o] = "duplicate" /\ exitCode[o] = 1
        /\ Succeeded(r) /\ ~(CatalogIds \subseteq atSuccess[r])

\* C9: without overlapping runs, when the create of entry k fails the run
\* stops at k and the table holds exactly entries 1..k-1, all created by this
\* run (nothing that was there before, nothing rolled back); when deleteMany
\* fails the tables are left as they were and no create is attempted.
C9_State ==
    \A r \in Runs :
        /\ (/\ ~overlap
            /\ ordinal[r] = starts
            /\ err[r] \in {"create", "duplicate"}) =>
                /\ pc[r] \in {"catch", "exited"}
                /\ idx[r] \in 1..Len(componentRegistry)
                /\ Ids(Component) = Prefix(idx[r] - 1)
                /\ \A row \in Component : row.run = ordinal[r]
        /\ err[r] = "deleteMany" =>
                /\ pc[r] \in {"catch", "exited"}
                /\ idx[r] = 1
                /\ \A row \in Component : row.run # ordinal[r]
C9_Step ==
    \A r \in Runs :
        /\ (pc[r] = "deleteMany" /\ pc'[r] = "catch") =>
                (err'[r] = "deleteMany" /\ UNCHANGED dbVars)
        /\ (pc[r] = "create" /\ pc'[r] = "catch") =>
                (UNCHANGED dbVars /\ idx'[r] = idx[r])
AllTerminated == starts >= 1 /\ \A r \in Runs : ~Alive(r)
C11_ConvergesToCatalog ==
    (healthy /\ DistinctIds /\ AllTerminated) =>
        /\ Ids(Component) = CatalogIds
        /\ Cardinality(Component) = Len(componentRegistry)
C11_Witness ==
    /\ healthy /\ DistinctIds /\ AllTerminated
    /\ overlap
    /\ Len(componentRegistry) = MaxCatalog
    /\ \E r \in Runs : err[r] = "duplicate" /\ exitCode[r] = 1 /\ idx[r] >= 2
    /\ Cardinality(Component) = MaxCatalog
    /\ \E x, y \in Component : x.run # y.run

\* C12: once the deleteMany of a seed run has completed, the Favorite and
\* ComponentVersion tables are empty (the step that deletes the components
\* empties them through the cascade), and the creates that follow leave them
\* empty: whether the run then succeeds or aborts, no Favorite or
\* ComponentVersion from before the run remains, not even for ids that the run
\* creates again.
PastDelete(r) ==
    \/ pc[r] \in {"create", "finally"}
    \/ pc[r] \in {"catch", "exited"} /\ err[r] # "deleteMany"
C12_State ==
    \A r \in Runs : PastDelete(r) => (Favorite = {} /\ ComponentVersion = {})
C12_Step ==
    \A r \in Runs :
        /\ (pc[r] = "deleteMany" /\ pc'[r] = "create") =>
              (Component' = {} /\ Favorite' = {} /\ ComponentVersion' = {})
        /\ (pc[r] = "create" /\ idx'[r] = idx[r] + 1) =>
              UNCHANGED <<Favorite, ComponentVersion>>
C12_SeedErasesUserData == []C12_State /\ [][C12_Step]_vars
C12_Witness ==
    \E r \in Runs :
        /\ starts = 1
        /\ pc[r] = "exited" /\ exitCode[r] = 0
        /\ lastStmt.op = "deleteMany" /\ lastStmt.b > 0 /\ lastStmt.c > 0
        /\ Ids(Component) = CompIds
        /\ Favorite = {} /\ ComponentVersion = {}

\* ---- properties of the schema ---------------------------------------------
PairTaken(userId, componentId) ==
    \E row \in Favorite : row.userId = userId /\ row.componentId = componentId

\* C5: no two Favorite rows share a (userId, componentId) pair; an insert
\* whose pair exists is rejected and leaves Favorite unchanged, while an insert
\* with an unused id, an existing component and a pair not yet present is
\* accepted, also when its user or its component already occurs in the table.
C5_Unique ==
    \A x, y \in Favorite :
        (x.userId = y.userId /\ x.componentId = y.componentId) => x = y
C5_Step ==
    lastStmt'.op = "InsertFavorite" =>
        /\ PairTaken(lastStmt'.b, lastStmt'.c) =>
              (lastStmt'.outcome = "rejected" /\ Favorite' = Favorite)
        /\ ( /\ ~PairTaken(lastStmt'.b, lastStmt'.c)
             /\ lastStmt'.a \notin Ids(Favorite)
             /\ lastStmt'.c \in Ids(Component) ) =>
              /\ lastStmt'.outcome = "ok"
              /\ Favorite' = Favorite \cup
                    {[id |-> lastStmt'.a, userId |-> lastStmt'.b,
                      componentId |-> lastStmt'.c]}
C5_FavoriteUnique == []C5_Unique /\ [][C5_Step]_vars
C5_Witness ==
    /\ lastStmt.op = "InsertFavorite"
    /\ lastStmt.outcome = "rejected"
    /\ lastStmt.a \notin Ids(Favorite)
    /\ lastStmt.c \in Ids(Component)
    /\ PairTaken(lastStmt.b, lastStmt.c)

\* C6: deleting a Component removes exactly the Favorite and ComponentVersion
\* rows that reference it and keeps every other row; every Favorite and
\* ComponentVersion always references an existing Component.
C6_Referential ==
    /\ \A row \in Favorite : row.componentId \in Ids(Component)
    /\ \A row \in ComponentVersion : row.componentId \in Ids(Component)
C6_Step ==
    lastStmt'.op = "DeleteComponent" =>
        /\ Component' = {row \in Component : row.id # lastStmt'.a}
        /\ Favorite' = {row \in Favorite : row.componentId # lastStmt'.a}
        /\ ComponentVersion' =
              {row \in ComponentVersion : row.componentId # lastStmt'.a}
C6_CascadeDelete == []C6_Referential /\ [][C6_Step]_vars
C6_Witness ==
    /\ lastStmt.op = "DeleteComponent"
    /\ lastStmt.b > 0
    /\ lastStmt.c > 0
    /\ Favorite # {}
    /\ ComponentVersion # {}

\* C10: no two User rows have the same email; an insert with an email that a
\* row holds, or an update to an email that another row holds, is rejected and
\* leaves User unchanged.
C10_Unique ==
    \A x, y \in User : x.email = y.email => x = y
C10_Step ==
    /\ (lastStmt'.op = "InsertUser"
          /\ \E row \in User : row.email = lastStmt'.b) =>
            (lastStmt'.outcome = "rejected" /\ User' = User)
    /\ (lastStmt'.op = "UpdateUserEmail"
          /\ \E row \in User : row.email = lastStmt'.b /\ row.id # lastStmt'.a) =>
            (lastStmt'.outcome = "rejected" /\ User' = User)
C10_EmailUnique == []C10_Unique /\ [][C10_Step]_vars
C10_Witness ==
    /\ lastStmt.op = "UpdateUserEmail"
    /\ lastStmt.outcome = "rejected"
    /\ \E row \in User : row.email = lastStmt.b /\ row.id # lastStmt.a
    /\ \E row \in User : row.id = lastStmt.a /\ row.email # lastStmt.b

\* ---- properties of the client module --------------------------------------
\* C7: in a process whose NODE_ENV is not 'production', at most one
\* PrismaClient is ever constructed: the first evaluation constructs it and
\* stores it on globalThis, and every evaluation exports that instance.
C7_DevSingleton ==
    \A p \in Procs :
        nodeEnv[p] # "production" =>
            /\ constructed[p] <= 1
            /\ Len(exported[p]) >= 1 =>
                  /\ constructed[p] = 1
                  /\ globalPrisma[p] = exported[p][1]
                  /\ \A i \in 1..Len(exported[p]) : exported[p][i] = exported[p][1]
C7_Step ==
    \A p \in Procs :
        (nodeEnv[p] # "production" /\ Len(exported[p]) >= 1) =>
            UNCHANGED <<constructed[p], globalPrisma[p]>>
C7_CreatedOnce == []C7_DevSingleton /\ [][C7_Step]_vars
C7_Witness ==
    \E p \in Procs :
        /\ nodeEnv[p] = "development"
        /\ Len(exported[p]) >= 3
        /\ constructed[p] = 1

\* C13: in a process whose NODE_ENV is 'production' no evaluation of the
\* module writes globalThis.prisma: the slot stays unset, so every evaluation
\* constructs a new client, distinct from those of the earlier evaluations.
C13_Production ==
    \A p \in Procs :
        nodeEnv[p] = "production" =>
            /\ globalPrisma[p] = 0
            /\ constructed[p] = Len(exported[p])
            /\ \A i, j \in 1..Len(exported[p]) :
                  exported[p][i] = exported[p][j] => i = j
C13_Step ==
    \A p \in Procs :
        nodeEnv[p] = "production" =>
            /\ globalPrisma'[p] = globalPrisma[p]
            /\ Len(exported'[p]) = Len(exported[p]) + 1 =>
                  constructed'[p] = constructed[p] + 1
C13_ProductionNeverStores == []C13_Production /\ [][C13_Step]_vars
C13_Witness ==
    \E p \in Procs :
        /\ nodeEnv[p] = "production"
        /\ Len(exported[p]) >= 3
        /\ constructed[p] >= 3
        /\ globalPrisma[p] = 0
====
